---- MODULE Spec2Model ----
(***************************************************************************)
(* Model of remove_exif.py (class ExifRemover): the interactive batch run  *)
(* that locates exiftool, lists the image files of the program directory,  *)
(* inspects each one, asks for confirmation and strips the metadata of the *)
(* files that carry an EXIF block.  The external tool and the file system  *)
(* are modelled by what the invoked commands do to a file's content.       *)
(***************************************************************************)
EXTENDS Integers, Sequences, FiniteSets, TLC

VARIABLES pc, exiftool_path, ver_log, ext, disk, disk0, backups, backups0,
          tmpdir, image_files, idx, valid_files, files_with_exif,
          format_issues, file_info, reprompts, create_backup, processed,
          failed, total_size_change, summary_printed, strip_log, vanished,
          unreadable, inspected, answered

vars == <<pc, exiftool_path, ver_log, ext, disk, disk0, backups, backups0,
          tmpdir, image_files, idx, valid_files, files_with_exif,
          format_issues, file_info, reprompts, create_backup, processed,
          failed, total_size_change, summary_printed, strip_log, vanished,
          unreadable, inspected, answered>>

(* ------------------------------ bounds --------------------------------- *)
\* number of files in a directory of the multi-file runs
NumFiles == 2
\* pre-existing backup names considered per file: _backup, _backup_1, ...
MaxBackups == 2
\* unrecognised answers given to one prompt before a recognised one
MaxReprompts == 1
\* files that disappear or become unreadable during one run
MaxFaults == 1

(* --------------------------- program constants ------------------------- *)
\* remove_exif_data: hash(file_path) % 10000
HashMod == 10000
\* os.getpid(): fixed for the lifetime of the process
getpid == 4242
\* values hash(file_path) may take (the string hash is arbitrary)
HashVals == {7, 8, HashMod + 7}

\* find_exiftool: possible_paths, in order
possible_paths == <<"exe_dir/exiftool.exe", "exe_dir/exiftool(-k).exe", "exiftool.exe">>
\* outcome of one `exiftool -ver` invocation
VerOutcomes == {"ok", "nonzero", "raise"}

\* get_image_files: extensions (without the "*")
extensions == <<".jpg", ".jpeg", ".png", ".tiff", ".tif", ".webp", ".bmp">>
\* get_file_info: supported_types
supported_types == {"JPEG", "PNG", "TIFF", "WEBP", "BMP"}

Tags == {"Orientation", "GPS"}
NoFile == [fmt |-> "NONE", tags |-> {}]
OldBackup == [fmt |-> "OLD", tags |-> {}]
NoTemp == [pid |-> 0, n |-> 0, ext |-> ""]

(* ------------------------------ helpers -------------------------------- *)
Range(s) == {s[k] : k \in 1..Len(s)}

\* str.upper() / str.lower() on the extensions that occur
upper(e) ==
  CASE e = ".jpg" -> ".JPG" [] e = ".jpeg" -> ".JPEG" [] e = ".png" -> ".PNG"
    [] e = ".tiff" -> ".TIFF" [] e = ".tif" -> ".TIF" [] e = ".webp" -> ".WEBP"
    [] e = ".bmp" -> ".BMP" [] OTHER -> e

lower(e) ==
  CASE e = ".JPG" -> ".jpg" [] e = ".JPEG" -> ".jpeg" [] e = ".PNG" -> ".png"
    [] e = ".TIFF" -> ".tiff" [] e = ".TIF" -> ".tif" [] e = ".WEBP" -> ".webp"
    [] e = ".BMP" -> ".bmp" [] OTHER -> e

exists(c) == c.fmt # "NONE"

\* os.path.getsize: bytes of the image data plus the metadata blocks
getsize(c) == 100 + 10 * Cardinality(c.tags)

RECURSIVE SortedSeq(_)
\* sorted(list(set(...))): file names are compared by their stem (the id)
SortedSeq(S) ==
  IF S = {} THEN <<>>
  ELSE LET m == CHOOSE x \in S : \A y \in S : x <= y
       IN <<m>> \o SortedSeq(S \ {m})

(* ------------------------ the external tool ---------------------------- *)
\* exiftool -s -s -s -FileType <path>
ExifToolFileType(c) == c.fmt

\* exiftool -s -s -s -EXIF:all <path>: the tags of the EXIF block; the
\* orientation tag is one of them (EXIF IFD0)
ExifToolExifAll(c) == c.tags

\* exiftool -overwrite_original -all= -TagsFromFile @ -orientation <path>:
\* delete every tag, then copy the orientation tag back from the original
ExifToolStrip(c) == [c EXCEPT !.tags = c.tags \cap {"Orientation"}]

\* the extensions under which exiftool writes a file of the given format
ExifToolWritable(e, fmt) ==
  \/ fmt = "JPEG" /\ lower(e) \in {".jpg", ".jpeg"}
  \/ fmt = "PNG" /\ lower(e) = ".png"
  \/ fmt = "TIFF" /\ lower(e) \in {".tiff", ".tif"}
  \/ fmt = "WEBP" /\ lower(e) = ".webp"
  \/ fmt = "BMP" /\ lower(e) = ".bmp"

(* ------------------------- pure functions ------------------------------ *)
\* check_format_mismatch(file_path, actual_format)
check_format_mismatch(e, actual_format) ==
  LET x == lower(e) IN
  IF actual_format = "JPEG" /\ x \notin {".jpg", ".jpeg"} THEN TRUE
  ELSE IF actual_format = "PNG" /\ x # ".png" THEN TRUE
  ELSE IF actual_format = "TIFF" /\ x \notin {".tiff", ".tif"} THEN TRUE
  ELSE IF actual_format = "WEBP" /\ x # ".webp" THEN TRUE
  ELSE IF actual_format = "BMP" /\ x # ".bmp" THEN TRUE
  ELSE FALSE

get_correct_extension_wrong(actual_format) ==
  CASE actual_format = "JPEG" -> ".png"
    [] actual_format = "PNG" -> ".jpg"
    [] actual_format = "TIFF" -> ".tiff"
    [] actual_format = "WEBP" -> ".webp"
    [] actual_format = "BMP" -> ".bmp"
    [] OTHER -> ".tmp"

\* get_correct_extension(actual_format)
get_correct_extension(actual_format) ==
  CASE actual_format = "JPEG" -> ".jpg"
    [] actual_format = "PNG" -> ".png"
    [] actual_format = "TIFF" -> ".tiff"
    [] actual_format = "WEBP" -> ".webp"
    [] actual_format = "BMP" -> ".bmp"
    [] OTHER -> ".tmp"

\* temp_name = f"exif_temp_{os.getpid()}_{hash(file_path) % 10000}{correct_ext}"
temp_name(h, correct_ext) == [pid |-> getpid, n |-> h % HashMod, ext |-> correct_ext]

RECURSIVE backup_search(_, _)
\* the while loop of remove_exif_data: counter 0 stands for name_backup.ext,
\* counter k >= 1 for name_backup_k.ext
backup_search(existing, counter) ==
  IF counter \in existing THEN backup_search(existing, counter + 1) ELSE counter

backup_path_first(existing) == 0

\* the backup path chosen among the names that already exist
backup_path(existing) == backup_search(existing, 0)

\* find_exiftool: index into possible_paths of the first candidate whose
\* version query exits with 0, or 0 when there is none
find_exiftool_any(outcomes) ==
  IF \E k \in 1..Len(possible_paths) : outcomes[k] # "raise"
  THEN CHOOSE k \in 1..Len(possible_paths) :
         /\ outcomes[k] # "raise"
         /\ \A j \in 1..(k - 1) : outcomes[j] = "raise"
  ELSE 0

find_exiftool(outcomes) ==
  IF \E k \in 1..Len(possible_paths) : outcomes[k] = "ok"
  THEN CHOOSE k \in 1..Len(possible_paths) :
         /\ outcomes[k] = "ok"
         /\ \A j \in 1..(k - 1) : outcomes[j] # "ok"
  ELSE 0

\* get_file_info(file_path): c is the content at the path, o the way the two
\* queries end ("nonzero": the file type query fails; "raise": a query times
\* out or cannot be started; "exif_empty": the EXIF query prints nothing)
get_file_info(c, o) ==
  IF o = "raise" THEN [type |-> "", has_exif |-> FALSE, error |-> TRUE]
  ELSE IF o = "nonzero" \/ ~exists(c)
    THEN [type |-> "", has_exif |-> FALSE, error |-> TRUE]
  ELSE IF ExifToolFileType(c) \notin supported_types
    THEN [type |-> ExifToolFileType(c), has_exif |-> FALSE, error |-> TRUE]
  ELSE [type |-> ExifToolFileType(c),
        has_exif |-> (o # "exif_empty" /\ ExifToolExifAll(c) # {}),
        error |-> FALSE]

append_with_exif_always(list, file, has_exif) == Append(list, file)

\* run: if has_exif: files_with_exif.append(file)
append_with_exif(list, file, has_exif) ==
  IF has_exif THEN Append(list, file) ELSE list

\* the answers accepted as yes and as no; "SHI" and "FOU" stand for the two
\* one-character Chinese answers of the source
YesAnswers == {"Y", "YES", "SHI"}
NoAnswers == {"N", "NO", "FOU"}
Answers == YesAnswers \cup NoAnswers \cup {"MAYBE", ""}

answer_kind_default_yes(choice) ==
  IF choice \in NoAnswers THEN "no" ELSE "yes"

\* run: the classification of one answer, after strip().upper()
answer_kind(choice) ==
  IF choice \in YesAnswers THEN "yes"
  ELSE IF choice \in NoAnswers THEN "no"
  ELSE "again"

next_failed_never(success, n) == n

\* run: else: failed += 1
next_failed(success, n) == IF success THEN n ELSE n + 1

\* run: processed += 1
next_processed(success, n) == IF success THEN n + 1 ELSE n

(* ------------------------- remove_exif_data ---------------------------- *)
\* shutil.copy2(file_path, temp_file): the temp directory is a set of
\* (path, content) entries and a copy replaces the entry of its path
copy_to_temp(t, p, c) ==
  {x \in t : x.path # p} \cup {[path |-> p, content |-> c]}

\* os.remove(temp_file)
remove_temp(t, p) == {x \in t : x.path # p}

NoEntry(f, c) ==
  [file |-> f, before |-> c, backup |-> -1, invoked |-> FALSE,
   on_temp |-> FALSE, temp |-> NoTemp, temp_created |-> FALSE,
   remove_attempted |-> FALSE, outcome |-> "exception", success |-> FALSE]

\* remove_exif_data(file_path, actual_format, create_backup) on the file
\* system (d, b, t).  o: how the strip invocation ends; h: hash(file_path);
\* rm_fails: os.remove raises.  Returns the file system afterwards, the
\* return value and a record of what was done.
remove_exif_data(f, actual_format, backup, d, b, t, o, h, rm_fails) ==
  LET c == d[f]
      readable == f \notin unreadable
      bp == backup_path(DOMAIN b[f])
      b1 == IF backup
            THEN [b EXCEPT ![f] = [k \in (DOMAIN b[f]) \cup {bp} |->
                                     IF k = bp THEN c ELSE b[f][k]]]
            ELSE b
      format_mismatch == check_format_mismatch(ext[f], actual_format)
      temp_file == temp_name(h, get_correct_extension(actual_format))
      t1 == IF format_mismatch THEN copy_to_temp(t, temp_file, c) ELSE t
      working_ext == IF format_mismatch THEN temp_file.ext ELSE ext[f]
      can_succeed == readable /\ ExifToolWritable(working_ext, c.fmt)
      eo == IF o = "ok" /\ ~can_succeed THEN "nonzero" ELSE o
      stripped == ExifToolStrip(c)
      t_removed == IF rm_fails THEN t1 ELSE remove_temp(t1, temp_file)
      e0 == NoEntry(f, c)
      e1 == [e0 EXCEPT !.backup = IF backup THEN bp ELSE -1]
      e2 == [e1 EXCEPT !.invoked = TRUE, !.on_temp = format_mismatch,
                       !.temp = IF format_mismatch THEN temp_file ELSE NoTemp,
                       !.temp_created = format_mismatch, !.outcome = eo]
  IN
  IF ~exists(c)
    \* os.path.getsize(file_path) raises
    THEN [disk |-> d, backups |-> b, tmpdir |-> t, success |-> FALSE, entry |-> e0]
  ELSE IF backup /\ ~readable
    \* shutil.copy2(file_path, backup_path) raises
    THEN [disk |-> d, backups |-> b, tmpdir |-> t, success |-> FALSE, entry |-> e0]
  ELSE IF format_mismatch /\ ~readable
    \* shutil.copy2(file_path, temp_file) raises
    THEN [disk |-> d, backups |-> b1, tmpdir |-> t, success |-> FALSE, entry |-> e1]
  ELSE IF eo = "timeout"
    \* except subprocess.TimeoutExpired: return False
    THEN [disk |-> d, backups |-> b1, tmpdir |-> t1, success |-> FALSE, entry |-> e2]
  ELSE IF eo = "nonzero"
    \* returncode != 0, then the clean-up of the temporary file
    THEN [disk |-> d, backups |-> b1,
          tmpdir |-> IF format_mismatch THEN t_removed ELSE t1,
          success |-> FALSE,
          entry |-> [e2 EXCEPT !.remove_attempted = format_mismatch]]
  ELSE
    \* returncode == 0: copy the temporary file back, remove it
    [disk |-> [d EXCEPT ![f] = stripped], backups |-> b1,
     tmpdir |-> IF format_mismatch THEN t_removed ELSE t1,
     success |-> TRUE,
     entry |-> [e2 EXCEPT !.remove_attempted = format_mismatch, !.success = TRUE]]

(* ------------------------------- Init ---------------------------------- *)
\* the files of the multi-file directories
Catalog ==
  { [ext |-> ".jpg", content |-> [fmt |-> "JPEG", tags |-> {"Orientation", "GPS"}]],
    [ext |-> ".png", content |-> [fmt |-> "PNG", tags |-> {}]],
    [ext |-> ".png", content |-> [fmt |-> "JPEG", tags |-> {"GPS"}]] }

\* the file of the single-file directories
WideExts == Range(extensions) \cup {".JPG", ".PNG", ".gif"}
WideFormats == supported_types \cup {"GIF"}
WideCatalog ==
  { [ext |-> e, content |-> [fmt |-> m, tags |-> g]] :
      e \in WideExts, m \in WideFormats, g \in SUBSET Tags }

InitRun(files, kinds, olds) ==
  /\ pc = "start"
  /\ exiftool_path = 0
  /\ ver_log = <<>>
  /\ ext = [f \in files |-> kinds[f].ext]
  /\ disk = [f \in files |-> kinds[f].content]
  /\ disk0 = disk
  /\ backups = [f \in files |-> [k \in olds[f] |-> OldBackup]]
  /\ backups0 = backups
  /\ tmpdir = {}
  /\ image_files = <<>>
  /\ idx = 0
  /\ valid_files = <<>>
  /\ files_with_exif = <<>>
  /\ format_issues = <<>>
  /\ file_info = [f \in files |-> [type |-> "", has_exif |-> FALSE, format_mismatch |-> FALSE]]
  /\ reprompts = 0
  /\ create_backup = FALSE
  /\ processed = 0
  /\ failed = 0
  /\ total_size_change = 0
  /\ summary_printed = FALSE
  /\ strip_log = <<>>
  /\ vanished = {}
  /\ unreadable = {}
  /\ inspected = <<>>
  /\ answered = ""

Init ==
  \/ \E kinds \in [1..NumFiles -> Catalog] :
       InitRun(1..NumFiles, kinds, [f \in 1..NumFiles |-> {}])
  \/ \E kind \in WideCatalog, old \in SUBSET (0..(MaxBackups - 1)) :
       InitRun({1}, [f \in {1} |-> kind], [f \in {1} |-> old])

(* ------------------------------ actions -------------------------------- *)
\* run: if not self.find_exiftool(): show_installation_guide(); return
FindExiftool ==
  /\ pc = "start"
  /\ \E outcomes \in [1..Len(possible_paths) -> VerOutcomes] :
       LET found == find_exiftool(outcomes)
           tried == IF found = 0 THEN Len(possible_paths) ELSE found
       IN /\ exiftool_path' = found
          /\ ver_log' = [k \in 1..tried |-> outcomes[k] = "ok"]
          /\ pc' = IF found = 0 THEN "done" ELSE "list"
  /\ UNCHANGED <<ext, disk, disk0, backups, backups0, tmpdir, image_files, idx,
                 valid_files, files_with_exif, format_issues, file_info,
                 reprompts, create_backup, processed, failed,
                 total_size_change, summary_printed, strip_log, vanished,
                 unreadable, inspected, answered>>

\* get_image_files: the files matched by one of the patterns, in lower or
\* upper case, without duplicates, sorted
get_image_files ==
  SortedSeq({f \in DOMAIN ext :
               \E k \in 1..Len(extensions) :
                 ext[f] = extensions[k] \/ ext[f] = upper(extensions[k])})

\* run: image_files = self.get_image_files(), its failure and the empty case
ListImages ==
  /\ pc = "list"
  /\ \E dir_error \in BOOLEAN :
       IF dir_error
       THEN pc' = "done" /\ UNCHANGED <<image_files, idx>>
       ELSE /\ image_files' = get_image_files
            /\ idx' = 1
            /\ pc' = IF get_image_files = <<>> THEN "done" ELSE "inspect"
  /\ UNCHANGED <<exiftool_path, ver_log, ext, disk, disk0, backups, backups0,
                 tmpdir, valid_files, files_with_exif, format_issues,
                 file_info, reprompts, create_backup, processed, failed,
                 total_size_change, summary_printed, strip_log, vanished,
                 unreadable, inspected, answered>>

ProbeOutcomes == {"ok", "nonzero", "raise", "exif_empty"}

\* run: one iteration of the inspection loop
InspectFile ==
  /\ pc = "inspect"
  /\ \E o \in ProbeOutcomes :
       LET file == image_files[idx]
           info == get_file_info(disk[file], o)
           mismatch == check_format_mismatch(ext[file], info.type)
       IN IF info.error
          THEN UNCHANGED <<valid_files, file_info, format_issues, files_with_exif>>
          ELSE /\ valid_files' = Append(valid_files, file)
               /\ file_info' = [file_info EXCEPT ![file] =
                    [type |-> info.type, has_exif |-> info.has_exif,
                     format_mismatch |-> mismatch]]
               /\ format_issues' = IF mismatch THEN Append(format_issues, file)
                                   ELSE format_issues
               /\ files_with_exif' =
                    append_with_exif(files_with_exif, file, info.has_exif)
  /\ inspected' = Append(inspected, image_files[idx])
  /\ idx' = idx + 1
  /\ pc' = IF idx = Len(image_files) THEN "review" ELSE "inspect"
  /\ UNCHANGED <<exiftool_path, ver_log, ext, disk, disk0, backups, backups0,
                 tmpdir, image_files, reprompts, create_backup, processed,
                 failed, total_size_change, summary_printed, strip_log,
                 vanished, unreadable, answered>>

\* run: the exits after the inspection loop (no valid file, no file with
\* EXIF data) and the listing of the files to process
Review ==
  /\ pc = "review"
  /\ pc' = IF valid_files = <<>> \/ files_with_exif = <<>> THEN "done" ELSE "confirm"
  /\ UNCHANGED <<exiftool_path, ver_log, ext, disk, disk0, backups, backups0,
                 tmpdir, image_files, idx, valid_files, files_with_exif,
                 format_issues, file_info, reprompts, create_backup, processed,
                 failed, total_size_change, summary_printed, strip_log,
                 vanished, unreadable, inspected, answered>>

\* run: one answer to the confirmation prompt
ConfirmProcessing ==
  /\ pc = "confirm"
  /\ \E choice \in Answers :
       LET kind == answer_kind(choice) IN
       /\ kind = "again" => reprompts < MaxReprompts
       /\ pc' = IF kind = "yes" THEN "backup"
                ELSE IF kind = "no" THEN "done" ELSE "confirm"
       /\ reprompts' = IF kind = "yes" THEN 0
                       ELSE IF kind = "no" THEN reprompts ELSE reprompts + 1
       /\ answered' = IF choice \in YesAnswers THEN "yes"
                      ELSE IF choice \in NoAnswers THEN "no" ELSE "other"
  /\ UNCHANGED <<exiftool_path, ver_log, ext, disk, disk0, backups, backups0,
                 tmpdir, image_files, idx, valid_files, files_with_exif,
                 format_issues, file_info, create_backup, processed, failed,
                 total_size_change, summary_printed, strip_log, vanished,
                 unreadable, inspected>>

\* run: one answer to the backup prompt
AskBackup ==
  /\ pc = "backup"
  /\ \E choice \in Answers :
       LET kind == answer_kind(choice) IN
       /\ kind = "again" => reprompts < MaxReprompts
       /\ pc' = IF kind = "again" THEN "backup" ELSE "strip"
       /\ reprompts' = IF kind = "again" THEN reprompts + 1 ELSE 0
       /\ create_backup' = (kind = "yes")
       /\ idx' = IF kind = "again" THEN idx ELSE 1
  /\ UNCHANGED <<exiftool_path, ver_log, ext, disk, disk0, backups, backups0,
                 tmpdir, image_files, valid_files, files_with_exif,
                 format_issues, file_info, processed, failed,
                 total_size_change, summary_printed, strip_log, vanished,
                 unreadable, inspected, answered>>

StripOutcomes == {"ok", "nonzero", "timeout"}

\* run: one iteration of the processing loop
StripFile ==
  /\ pc = "strip"
  /\ LET file == files_with_exif[idx] IN
     IF ~exists(disk[file])
     THEN \* original_size = os.path.getsize(file) raises out of run
          /\ pc' = "crashed"
          /\ UNCHANGED <<disk, backups, tmpdir, idx, processed, failed,
                         total_size_change, strip_log>>
     ELSE \E o \in StripOutcomes, h \in HashVals, rm_fails \in BOOLEAN :
            LET r == remove_exif_data(file, file_info[file].type, create_backup,
                                      disk, backups, tmpdir, o, h, rm_fails)
            IN /\ disk' = r.disk
               /\ backups' = r.backups
               /\ tmpdir' = r.tmpdir
               /\ strip_log' = Append(strip_log, r.entry)
               /\ processed' = next_processed(r.success, processed)
               /\ failed' = next_failed(r.success, failed)
               /\ total_size_change' =
                    IF r.success
                    THEN total_size_change + (getsize(r.disk[file]) - getsize(disk[file]))
                    ELSE total_size_change
               /\ idx' = idx + 1
               /\ pc' = IF idx = Len(files_with_exif) THEN "summary" ELSE "strip"
  /\ UNCHANGED <<exiftool_path, ver_log, ext, disk0, backups0, image_files,
                 valid_files, files_with_exif, format_issues, file_info,
                 reprompts, create_backup, summary_printed, vanished,
                 unreadable, inspected, answered>>

\* run: the final summary
PrintSummary ==
  /\ pc = "summary"
  /\ summary_printed' = TRUE
  /\ pc' = "done"
  /\ UNCHANGED <<exiftool_path, ver_log, ext, disk, disk0, backups, backups0,
                 tmpdir, image_files, idx, valid_files, files_with_exif,
                 format_issues, file_info, reprompts, create_backup, processed,
                 failed, total_size_change, strip_log, vanished, unreadable, inspected, answered>>

Faults == Cardinality(vanished) + Cardinality(unreadable)

\* the environment: a file disappears after its inspection
Vanish ==
  /\ pc = "strip"
  /\ Faults < MaxFaults
  /\ \E f \in Range(image_files) :
       /\ exists(disk[f])
       /\ disk' = [disk EXCEPT ![f] = NoFile]
       /\ vanished' = vanished \cup {f}
  /\ UNCHANGED <<pc, exiftool_path, ver_log, ext, disk0, backups, backups0,
                 tmpdir, image_files, idx, valid_files, files_with_exif,
                 format_issues, file_info, reprompts, create_backup, processed,
                 failed, total_size_change, summary_printed, strip_log,
                 unreadable, inspected, answered>>

\* the environment: a file can no longer be read (locked by another program)
MakeUnreadable ==
  /\ pc = "strip"
  /\ Faults < MaxFaults
  /\ \E f \in Range(image_files) :
       /\ exists(disk[f])
       /\ f \notin unreadable
       /\ unreadable' = unreadable \cup {f}
  /\ UNCHANGED <<pc, exiftool_path, ver_log, ext, disk, disk0, backups, backups0,
                 tmpdir, image_files, idx, valid_files, files_with_exif,
                 format_issues, file_info, reprompts, create_backup, processed,
                 failed, total_size_change, summary_printed, strip_log,
                 vanished, inspected, answered>>

Next ==
  \/ FindExiftool
  \/ ListImages
  \/ InspectFile
  \/ Review
  \/ ConfirmProcessing
  \/ AskBackup
  \/ StripFile
  \/ PrintSummary
  \/ Vanish
  \/ MakeUnreadable

Spec == Init /\ [][Next]_vars

TypeOK ==
  /\ pc \in {"start", "list", "inspect", "review", "confirm", "backup",
             "strip", "summary", "done", "crashed"}
  /\ exiftool_path \in 0..Len(possible_paths)
  /\ processed \in Nat /\ failed \in Nat

(* ------------------------------ claims --------------------------------- *)
Entries == {strip_log[k] : k \in 1..Len(strip_log)}
Untouched == disk = disk0 /\ backups = backups0 /\ tmpdir = {} /\ strip_log = <<>>

\* C1: once the tool is located and the directory listed, no error raised
\* while one file is handled aborts the batch: when the run has ended after
\* the processing started, every file with metadata was visited and the
\* summary was printed.
C1_BatchNeverAborted ==
  (pc = "crashed" \/ (pc = "done" /\ answered = "yes"))
    => (summary_printed /\ Len(strip_log) = Len(files_with_exif))

\* C2: a file whose inspection reported no metadata is never handed to the
\* stripper: no strip record, no backup, no temporary copy of it exists and,
\* unless the file itself disappeared, its content and size are those of the
\* start of the run.
C2_NoMetadataUntouched ==
  \A f \in Range(valid_files) :
    ~file_info[f].has_exif =>
      /\ \A e \in Entries : e.file # f
      /\ backups[f] = backups0[f]
      /\ f \notin vanished =>
           (disk[f] = disk0[f] /\ getsize(disk[f]) = getsize(disk0[f]))

C2_Witness ==
  /\ summary_printed
  /\ \E f \in Range(valid_files) : ~file_info[f].has_exif /\ disk0[f].tags # {}
  /\ \E e \in Entries : e.success /\ disk[e.file] # disk0[e.file]

\* C3: a strip invocation for a file whose extension does not fit its
\* detected format runs on a temporary copy whose extension is a canonical
\* one of that format, and after a successful invocation the original path
\* holds the stripped content in the same format; for a file whose extension
\* fits, the invocation runs on the original path and no temporary copy is
\* created.
C3_MismatchRerouted ==
  \A e \in Entries :
    LET f == e.file
        fmt == file_info[f].type
        fits == ExifToolWritable(ext[f], fmt)
    IN e.invoked =>
         /\ ~fits => /\ e.on_temp /\ e.temp_created
                     /\ ExifToolWritable(e.temp.ext, fmt)
                     /\ e.temp.ext # ext[f]
         /\ fits => (~e.on_temp /\ ~e.temp_created /\ e.temp = NoTemp)
         /\ (e.success /\ f \notin vanished) =>
              /\ disk[f] = ExifToolStrip(e.before)
              /\ disk[f].fmt = e.before.fmt
              /\ disk[f].fmt = fmt

C3_Witness ==
  \E e \in Entries :
    /\ e.on_temp /\ e.success
    /\ ~ExifToolWritable(ext[e.file], file_info[e.file].type)
    /\ disk[e.file] # e.before
    /\ disk[e.file] = ExifToolStrip(e.before)

\* C4: after a successful strip the EXIF query on the file prints nothing,
\* also for a file that carried an orientation tag.
C4_ProbeReportsNone ==
  \A e \in Entries :
    (e.success /\ e.file \notin vanished) => ExifToolExifAll(disk[e.file]) = {}

\* C5: the backup is written to the first of name_backup.ext,
\* name_backup_1.ext, ... that does not exist, and no file that existed
\* before is overwritten by it.
C5_BackupFirstFree ==
  \A e \in Entries :
    e.backup # -1 =>
      LET old == DOMAIN backups0[e.file] IN
      /\ e.backup \notin old
      /\ \A j \in 0..(e.backup - 1) : j \in old
      /\ e.backup \in DOMAIN backups[e.file]
      /\ backups[e.file][e.backup] = e.before
      /\ \A j \in old : backups[e.file][j] = OldBackup

C5_Witness ==
  \E e \in Entries :
    /\ e.backup = MaxBackups
    /\ DOMAIN backups0[e.file] = 0..(MaxBackups - 1)
    /\ backups[e.file][e.backup] = e.before

\* C6: whenever remove_exif_data created a temporary copy, a removal of
\* that copy was attempted before it returned.
C6_CleanupAlwaysAttempted ==
  \A e \in Entries : e.temp_created => e.remove_attempted

\* C7: when no candidate passes the version query, the run ends without
\* listing the directory, inspecting, backing up or stripping any file.
C7_NotFoundTouchesNothing ==
  (ver_log # <<>> /\ \A k \in 1..Len(ver_log) : ~ver_log[k]) =>
    /\ pc = "done"
    /\ exiftool_path = 0
    /\ image_files = <<>> /\ inspected = <<>> /\ valid_files = <<>>
    /\ Untouched

C7_Witness ==
  /\ pc = "done"
  /\ Len(ver_log) = Len(possible_paths)
  /\ \A k \in 1..Len(ver_log) : ~ver_log[k]

Count(P(_)) == Cardinality({k \in 1..Len(strip_log) : P(strip_log[k])})
IsSuccess(e) == e.success
IsFailure(e) == ~e.success
IsInvoked(e) == e.invoked

\* C8 (as stated): when the summary is printed, every file flagged as having
\* metadata has had exactly one strip invocation.
C8_ExactlyOneInvocation ==
  summary_printed =>
    \A f \in Range(files_with_exif) :
      Cardinality({k \in 1..Len(strip_log) :
                     strip_log[k].file = f /\ strip_log[k].invoked}) = 1

\* C8 (amended): the processing starts only after every discovered file was
\* inspected, visits the files with metadata in sorted order, each once and
\* with at most one strip invocation (none only when an exception was raised
\* before the invocation); when the summary is printed processed + failed is
\* the number of files flagged and each is counted once.
C8_SequentialSingleAttempt ==
  /\ (pc \in {"strip", "summary", "crashed"} \/ strip_log # <<>>) =>
       inspected = image_files
  /\ \A j, k \in 1..Len(files_with_exif) :
       j < k => files_with_exif[j] < files_with_exif[k]
  /\ Len(strip_log) <= Len(files_with_exif)
  /\ \A k \in 1..Len(strip_log) : strip_log[k].file = files_with_exif[k]
  /\ \A e \in Entries :
       ~e.invoked => (e.outcome = "exception" /\ ~e.success /\ e.file \in unreadable)
  /\ processed = Count(IsSuccess)
  /\ failed = Count(IsFailure)
  /\ summary_printed =>
       /\ Len(strip_log) = Len(files_with_exif)
       /\ processed + failed = Len(files_with_exif)

C8_Witness ==
  /\ summary_printed
  /\ processed = 1 /\ failed = 1
  /\ \E e \in Entries : ~e.invoked

\* C9: two distinct files that are rerouted never use the same temporary
\* path within one run.
C9_TempNamesUnique ==
  \A j, k \in 1..Len(strip_log) :
    (j # k /\ strip_log[j].temp_created /\ strip_log[k].temp_created) =>
      strip_log[j].temp # strip_log[k].temp

\* C10: nothing is modified, backed up or copied before the user answered
\* yes to the confirmation prompt, and after the answer no the run has ended
\* with every file unchanged and no strip invocation.
C10_NothingBeforeYes ==
  /\ answered # "yes" => Untouched
  /\ answered = "no" => (pc = "done" /\ ~summary_printed)

C10_Witness ==
  /\ pc = "done" /\ answered = "no" /\ reprompts = MaxReprompts
  /\ files_with_exif # <<>>
====
